---- MODULE Spec2Model ----
(***************************************************************************)
(* A model of the request pipeline of packages/astro: the render hook      *)
(* pipeline (integrations/render-hooks.ts), the endpoint invoker           *)
(* (core/endpoint/index.ts), the production App facade (core/app/index.ts) *)
(* and the dev page renderer (core/render/dev/index.ts).                   *)
(*                                                                         *)
(* Strings are sequences of characters; a JavaScript object that has an    *)
(* identity (a Response) carries an "id" field, and two references are the *)
(* same object exactly when the records are equal.                         *)
(***************************************************************************)
EXTENDS Integers, Sequences, FiniteSets, TLC

VARIABLES
    pipe,         \* one run of runRenderHookPostProcessHtml (PipeSpec)
    renderHooks,  \* manifest.renderHooks of the App
    routeCache,   \* App.#routeCache
    req,          \* the App.render calls, by request
    dev,          \* one call of the dev page render() (DevSpec)
    pre           \* one call of preload() (PreloadSpec)

pipeVars == <<pipe>>
appVars == <<renderHooks, routeCache, req>>
devVars == <<dev>>
preVars == <<pre>>
vars == <<pipe, renderHooks, routeCache, req, dev, pre>>

-----------------------------------------------------------------------------
(* Bounds *)

\* longest hook list given to a stand-alone pipeline run
MaxHooks == 3
\* longest manifest.renderHooks of the App
MaxAppHooks == 1
\* number of App.render calls that may be in flight together
MaxRequests == 2
\* longest astroConfig._ctx.renderers and astroConfig._ctx.renderHooks
MaxRenderers == 2
MaxRenderHooks == 2

-----------------------------------------------------------------------------
(* Strings *)

UpperChar(c) ==
    CASE c = "a" -> "A"
      [] c = "b" -> "B"
      [] c = "eacute" -> "EACUTE"
      [] OTHER -> c

\* String.prototype.toUpperCase, used by the "upper" hook
ToUpperCase(s) == [k \in 1..Len(s) |-> UpperChar(s[k])]

-----------------------------------------------------------------------------
(* Render hooks: SSRLoadedRenderHook = { ssr: { postProcessHtml? }, options } *)

\* what a hook's ssr module does; "none" has no postProcessHtml capability
HookKinds == {"none", "noop", "upper", "append", "empty", "throw", "epaware"}

LoadedHooks ==
    {[ssr |-> k, options |-> "x"] : k \in HookKinds}
        \cup {[ssr |-> "append", options |-> "y"]}

\* renderHooks[i].ssr.postProcessHtml is defined
HasPostProcessHtml(hook) == hook.ssr # "none"

Undefined == [tag |-> "undefined", val |-> << >>]
Thrown    == [tag |-> "throw", val |-> << >>]
Str(s)    == [tag |-> "string", val |-> s]

\* The integration's postProcessHtml(ctx): a string, undefined, or an exception
postProcessHtml(hook, ctx) ==
    CASE hook.ssr = "noop"    -> Undefined
      [] hook.ssr = "upper"   -> Str(ToUpperCase(ctx.html))
      [] hook.ssr = "append"  -> Str(Append(ctx.html, ctx.options))
      [] hook.ssr = "empty"   -> Str(<< >>)
      [] hook.ssr = "throw"   -> Thrown
      [] hook.ssr = "epaware" -> IF ctx.routeType = "endpoint"
                                 THEN Undefined
                                 ELSE Str(ToUpperCase(ctx.html))
      [] OTHER                -> Undefined

\* JavaScript truthiness of a hook's return value: `if (newHtml)`
Truthy(ret) == ret.tag = "string" /\ ret.val # << >>

-----------------------------------------------------------------------------
(* runRenderHookPostProcessHtml, one loop iteration per step *)

\* the frame of one call: parameters, the local `html`, the loop index i
\* (1-based), the invocations made so far, and how the call ended
PipeFrame(hooks, routeType, pathname, html, ssr) ==
    [ renderHooks |-> hooks, routeType |-> routeType, pathname |-> pathname,
      ssr |-> ssr, input |-> html, html |-> html, i |-> 1, calls |-> << >>,
      status |-> "running" ]

\* no call has been made
NoPipe == [PipeFrame(<< >>, "none", "", << >>, FALSE) EXCEPT !.status = "idle"]

\* the html handed to the hook: the local variable, which holds the latest
\* replacement
HookInputOriginal(p) == p.input
HookInput(p) == p.html

HookContext(p) ==
    [ routeType |-> p.routeType, pathname |-> p.pathname, html |-> HookInput(p),
      ssr |-> p.ssr, options |-> p.renderHooks[p.i].options ]

\* `if (newHtml) html = newHtml;`
Replace(html, newHtml) == IF Truthy(newHtml) THEN newHtml.val ELSE html

\* `continue` on a hook without postProcessHtml: on to the next index
SkipBreak(p) == [p EXCEPT !.i = Len(p.renderHooks) + 1]
Skip(p) == [p EXCEPT !.i = p.i + 1]

\* an exception thrown by the awaited hook leaves the function
RaiseSwallow(p, call) == [p EXCEPT !.calls = Append(p.calls, call), !.i = p.i + 1]
Raise(p, call) == [p EXCEPT !.calls = Append(p.calls, call), !.status = "threw"]

\* the loop body for index p.i
Iterate(p) ==
    IF ~HasPostProcessHtml(p.renderHooks[p.i])
    THEN Skip(p)
    ELSE LET ctx  == HookContext(p)
             ret  == postProcessHtml(p.renderHooks[p.i], ctx)
             call == [idx |-> p.i, ctx |-> ctx, ret |-> ret]
         IN  IF ret.tag = "throw"
             THEN Raise(p, call)
             ELSE [p EXCEPT !.html = Replace(p.html, ret),
                            !.calls = Append(p.calls, call),
                            !.i = p.i + 1]

\* the loop test `i < renderHooks.length` and `return html`
Finish(p) ==
    IF p.status = "running" /\ p.i > Len(p.renderHooks)
    THEN [p EXCEPT !.status = "returned"]
    ELSE p

\* entering the function, up to the first await or the return
runRenderHookPostProcessHtml(hooks, routeType, pathname, html, ssr) ==
    Finish(PipeFrame(hooks, routeType, pathname, html, ssr))

\* resuming after the awaited hook, up to the next await or the return
PipeStep(p) == Finish(Iterate(p))

\* the whole call, run to its end
RECURSIVE RunToEnd(_)
RunToEnd(p) == IF p.status = "running" THEN RunToEnd(PipeStep(p)) ELSE p

\* how a finished call ended: the returned html, or the exception
Outcome(p) == IF p.status = "returned" THEN Str(p.html) ELSE Thrown

-----------------------------------------------------------------------------
(* The inputs of the pipeline *)

RECURSIVE SeqsUpTo(_, _)
SeqsUpTo(S, n) ==
    IF n = 0 THEN {<< >>}
    ELSE LET shorter == SeqsUpTo(S, n - 1)
         IN  shorter \cup {Append(q, x) : q \in {t \in shorter : Len(t) = n - 1}, x \in S}

\* "eacute" is the two-byte character U+00E9
Htmls == {<< >>, <<"a">>, <<"eacute", "b">>}

RouteTypes == {"page", "endpoint"}


-----------------------------------------------------------------------------
(* Byte encoding and number formatting *)

\* TextEncoder.encode of one character: its UTF-8 bytes
Utf8(c) ==
    CASE c = "a" -> <<97>>
      [] c = "b" -> <<98>>
      [] c = "x" -> <<120>>
      [] c = "y" -> <<121>>
      [] c = "A" -> <<65>>
      [] c = "B" -> <<66>>
      [] c = "X" -> <<88>>
      [] c = "Y" -> <<89>>
      [] c = "eacute" -> <<195, 169>>
      [] c = "EACUTE" -> <<195, 137>>
      [] OTHER -> <<63>>

RECURSIVE encode(_)
encode(s) == IF s = << >> THEN << >> ELSE Utf8(Head(s)) \o encode(Tail(s))

Digit(d) == <<"0", "1", "2", "3", "4", "5", "6", "7", "8", "9">>[d + 1]

\* Number.prototype.toString of a non-negative integer
RECURSIVE toString(_)
toString(n) == IF n < 10 THEN <<Digit(n)>> ELSE Append(toString(n \div 10), Digit(n % 10))

-----------------------------------------------------------------------------
(* The manifest of the App: routes in declared order *)

\* RouteData; `static` routes have a precomputed set of static paths
NoRoute ==
    [route |-> "", type |-> "", component |-> "", accepts |-> {}, static |-> FALSE,
     staticPaths |-> {}]

IndexRoute ==
    [route |-> "/", type |-> "page", component |-> "pages/index.astro",
     accepts |-> {"/"}, static |-> TRUE, staticPaths |-> {"/"}]
DataRoute ==
    [route |-> "/api/data.json", type |-> "endpoint", component |-> "pages/api/data.json.ts",
     accepts |-> {"/api/data.json"}, static |-> FALSE, staticPaths |-> {}]
ItemRoute ==
    [route |-> "/p/[id]", type |-> "endpoint", component |-> "pages/p/[id].ts",
     accepts |-> {"/p/1", "/p/2", "/p/3"}, static |-> TRUE,
     staticPaths |-> {"/p/1", "/p/2"}]
OldRoute ==
    [route |-> "/old", type |-> "redirect", component |-> "pages/old.ts",
     accepts |-> {"/old"}, static |-> TRUE, staticPaths |-> {"/old"}]

\* manifest.routes.map((route) => route.routeData)
ManifestRoutes == <<IndexRoute, DataRoute, ItemRoute, OldRoute>>

\* the url.pathname of the requests
Paths == {"/", "/api/data.json", "/p/1", "/p/3", "/old", "/does-not-exist"}

\* the routeData argument of App.render: absent, or a pre-resolved route
GivenRoutes == {NoRoute, DataRoute}

\* manifest.entryModules: specifier -> bundle path
EntryModules == [s \in {"@astrojs/preact/client.js"} |-> <<"chunks", "/", "client.js">>]

\* matchRoute(pathname, manifestData): the first route, in manifest order,
\* whose pattern accepts the pathname
matchRoute(pathname, routes) ==
    IF \E k \in 1..Len(routes) : pathname \in routes[k].accepts
    THEN routes[CHOOSE k \in 1..Len(routes) :
                    /\ pathname \in routes[k].accepts
                    /\ \A j \in 1..(k - 1) : pathname \notin routes[j].accepts]
    ELSE NoRoute

\* App.match
match(pathname) == matchRoute(pathname, ManifestRoutes)

\* mime.getType(url.pathname): by the pathname's extension, null when unknown
getType(pathname) ==
    IF pathname = "/api/data.json" THEN <<"application/json">> ELSE << >>

-----------------------------------------------------------------------------
(* Responses and errors *)

NullBody == [tag |-> "null", bytes |-> << >>]
BytesBody(b) == [tag |-> "bytes", bytes |-> b]

NoResponse ==
    [id |-> <<"none", 0>>, status |-> 0, statusText |-> "", headers |-> {}, body |-> NullBody]

\* new Response(null, { status: 404, statusText: 'Not found' })
NotFound(r) ==
    [id |-> <<"app", r>>, status |-> 404, statusText |-> "Not found", headers |-> {},
     body |-> NullBody]

\* the Response #renderPage builds for an html result
HtmlResponseCharLength(r, html) ==
    LET bytes == encode(html)
    IN  [id |-> <<"app", r>>, status |-> 200, statusText |-> "",
         headers |-> {<<"Content-Type", <<"text/html">> >>,
                      <<"Content-Length", toString(Len(html))>>},
         body |-> BytesBody(bytes)]
HtmlResponse(r, html) ==
    LET bytes == encode(html)
    IN  [id |-> <<"app", r>>, status |-> 200, statusText |-> "",
         headers |-> {<<"Content-Type", <<"text/html">> >>,
                      <<"Content-Length", toString(Len(bytes))>>},
         body |-> BytesBody(bytes)]

\* the Response #callEndpoint builds for a simple result
SimpleResponseDefaultHtml(r, pathname, body) ==
    LET bytes    == encode(body)
        mimeType == getType(pathname)
    IN  [id |-> <<"app", r>>, status |-> 200, statusText |-> "",
         headers |-> {<<"Content-Type", IF mimeType # << >> THEN mimeType
                                         ELSE <<"text/html">> >>,
                      <<"Content-Length", toString(Len(bytes))>>},
         body |-> BytesBody(bytes)]
SimpleResponse(r, pathname, body) ==
    LET bytes    == encode(body)
        mimeType == getType(pathname)
    IN  [id |-> <<"app", r>>, status |-> 200, statusText |-> "",
         headers |-> (IF mimeType # << >> THEN {<<"Content-Type", mimeType>>} ELSE {})
                        \cup {<<"Content-Length", toString(Len(bytes))>>},
         body |-> BytesBody(bytes)]

\* a Response object made by an endpoint handler or a page component
AuthoredResponses(r) ==
    {[id |-> <<"authored", r>>, status |-> st, statusText |-> "", headers |-> {},
      body |-> BytesBody(encode(<<"a">>))] : st \in {200, 500}}

NoError == << >>

\* `[getStaticPath] route pattern matched, but no matching static path found. (${opts.pathname})`
NoMatchingStaticPathErrorOfRoute(rq) ==
    <<"[getStaticPath] route pattern matched, but no matching static path found. (",
      rq.routeData.route, ")">>
NoMatchingStaticPathError(rq) ==
    <<"[getStaticPath] route pattern matched, but no matching static path found. (",
      rq.pathname, ")">>

\* `Unsupported route type [${routeData.type}].`
UnsupportedRouteTypeError(type) == <<"Unsupported route type [", type, "].">>

\* `Unable to resolve [${specifier}]`
UnableToResolveError(specifier) == <<"Unable to resolve [", specifier, "]">>

\* the exception a render hook raised
HookError == <<"render hook error">>

\* what the core render resolves to: { type: 'html', html } or
\* { type: 'response', response }, or the exception it raises
HtmlContent(html) == [type |-> "html", html |-> html, response |-> NoResponse, error |-> NoError]
ResponseContent(response) ==
    [type |-> "response", html |-> << >>, response |-> response, error |-> NoError]
ThrownContent(error) ==
    [type |-> "throw", html |-> << >>, response |-> NoResponse, error |-> error]
NoContent == [type |-> "none", html |-> << >>, response |-> NoResponse, error |-> NoError]

-----------------------------------------------------------------------------
(* One App.render call *)

Requests == 1..MaxRequests

\* EndpointCallResult: { type: 'simple', body } or { type: 'response', response }
NoCallResult == [type |-> "none", body |-> << >>, response |-> NoResponse]
SimpleResult(body) == [type |-> "simple", body |-> body, response |-> NoResponse]
ResponseResult(response) == [type |-> "response", body |-> << >>, response |-> response]

\* what renderEndpoint(mod, request, params) resolves to: a Response object
\* or an object with a body
NoReturn == [kind |-> "none", response |-> NoResponse, body |-> << >>]
HandlerReturns(r) ==
    {[kind |-> "response", response |-> a, body |-> << >>] : a \in AuthoredResponses(r)}
        \cup {[kind |-> "body", response |-> NoResponse, body |-> b] : b \in Htmls}

IdleRequest ==
    [ pc |-> "idle", pathname |-> "", given |-> NoRoute, routeData |-> NoRoute,
      params |-> << >>, pipe |-> NoPipe, callResult |-> NoCallResult,
      result |-> NoResponse, error |-> NoError,
      \* history, for the properties
      matched |-> FALSE,        \* the matcher was consulted
      invoked |-> {},           \* which of #renderPage, #callEndpoint ran
      cacheFrom |-> 0,          \* the request that wrote the cache entry read
      authored |-> NoResponse,  \* the Response the handler or component made
      paramsResp |-> << >>,     \* what getParamsAndProps resolved to
      returned |-> NoReturn,    \* what the endpoint handler returned
      specifier |-> "",         \* the specifier the component asked to resolve
      content |-> NoContent     \* what the core render resolved to
    ]

\* the request fails: the exception leaves App.render
ThrowAsResponse(rq, error) ==
    [rq EXCEPT !.pc = "done",
               !.result = [NoResponse EXCEPT !.id = <<"app", 0>>, !.status = 500]]
Throw(rq, error) == [rq EXCEPT !.pc = "failed", !.error = error]

\* App.render returns the response
Return(rq, response) == [rq EXCEPT !.pc = "done", !.result = response]

\* `if (!routeData) { routeData = this.match(request); ... }`
ResolveRouteAlwaysMatch(rq) ==
    [rq EXCEPT !.matched = TRUE, !.routeData = match(rq.pathname)]
ResolveRoute(rq) ==
    IF rq.given = NoRoute
    THEN [rq EXCEPT !.matched = TRUE, !.routeData = match(rq.pathname)]
    ELSE [rq EXCEPT !.routeData = rq.given]

\* the branch on routeData.type; both paths first resolve params and props
DispatchNotFound(rq, r) ==
    IF rq.routeData.type \in {"page", "endpoint"}
    THEN [rq EXCEPT !.pc = "params", !.invoked = rq.invoked \cup {rq.routeData.type}]
    ELSE Return(rq, NotFound(r))
Dispatch(rq, r) ==
    IF rq.routeData.type = "page"
    THEN [rq EXCEPT !.pc = "params", !.invoked = rq.invoked \cup {"page"}]
    ELSE IF rq.routeData.type = "endpoint"
    THEN [rq EXCEPT !.pc = "params", !.invoked = rq.invoked \cup {"endpoint"}]
    ELSE Throw(rq, UnsupportedRouteTypeError(rq.routeData.type))

\* the routing miss
MissFallThrough(rq, r) == Dispatch([rq EXCEPT !.routeData = IndexRoute], r)
Miss(rq, r) == Return(rq, NotFound(r))

\* App.render, up to its first await
render(rq, r) ==
    LET resolved == ResolveRoute(rq)
    IN  IF resolved.routeData = NoRoute THEN Miss(resolved, r) ELSE Dispatch(resolved, r)

Render(r) ==
    /\ req[r].pc = "idle"
    /\ \E pathname \in Paths, given \in GivenRoutes :
          req' = [req EXCEPT ![r] =
                     render([req[r] EXCEPT !.pathname = pathname, !.given = given], r)]
    /\ UNCHANGED <<renderHooks, routeCache, pipeVars, devVars, preVars>>

-----------------------------------------------------------------------------
(* getParamsAndProps and the route cache *)

NoMatchingStaticPath == <<"NoMatchingStaticPath">>

\* the params the route's pattern extracts from the pathname
ParamsOf(route, pathname) ==
    IF route.route = "/p/[id]"
    THEN CASE pathname = "/p/1" -> <<"id", "1">>
           [] pathname = "/p/2" -> <<"id", "2">>
           [] pathname = "/p/3" -> <<"id", "3">>
           [] OTHER -> << >>
    ELSE << >>

\* a static route hit with a path outside its static paths has no match; a
\* dynamic route takes its params from the pattern
ComputeParams(route, pathname) ==
    IF route.static /\ pathname \notin route.staticPaths
    THEN NoMatchingStaticPath
    ELSE ParamsOf(route, pathname)

\* the cache is keyed by route and concrete path
CacheKey(route, pathname) == <<route.component, pathname>>

CacheHas(cache, key) == \E e \in cache : e.key = key
CacheGet(cache, key) == CHOOSE e \in cache : e.key = key

\* getParamsAndProps({ ...opts, mod }): [the outcome, the cache afterwards,
\* the request whose entry was read (0: computed here)]
getParamsAndProps(route, pathname, cache, r) ==
    LET key == CacheKey(route, pathname)
    IN  IF CacheHas(cache, key)
        THEN [val |-> CacheGet(cache, key).val, cache |-> cache,
              from |-> CacheGet(cache, key).writer]
        ELSE LET val == ComputeParams(route, pathname)
             IN  [val |-> val,
                  cache |-> cache \cup {[key |-> key, val |-> val, writer |-> r]},
                  from |-> 0]

\* call(): `if (paramsAndPropsResp === GetParamsAndPropsError.NoMatchingStaticPath) throw`
OnNoMatchingStaticPathWrongName(rq, r) == Throw(rq, NoMatchingStaticPathErrorOfRoute(rq))
OnNoMatchingStaticPath(rq, r) == Throw(rq, NoMatchingStaticPathError(rq))

\* the first statement of call() with its await (for a page route the same
\* resolution is made by the core render), on the cache the App passes in:
\* `routeCache: this.#routeCache`
GetParamsAndProps(r) ==
    /\ req[r].pc = "params"
    /\ LET rq  == req[r]
           got == getParamsAndProps(rq.routeData, rq.pathname, routeCache, r)
           hit == [rq EXCEPT !.cacheFrom = got.from, !.paramsResp = got.val]
       IN  /\ routeCache' = got.cache
           /\ req' = [req EXCEPT ![r] =
                  IF got.val = NoMatchingStaticPath
                  THEN OnNoMatchingStaticPath(hit, r)
                  ELSE [hit EXCEPT !.params = got.val,
                                   !.pc = IF rq.routeData.type = "page"
                                          THEN "component" ELSE "handler"]]
    /\ UNCHANGED <<renderHooks, pipeVars, devVars, preVars>>

-----------------------------------------------------------------------------
(* The endpoint invoker: call() after the params are resolved *)

\* the Response the App returns for a call() result of type 'response'
PassThrough(r, response) == response

\* call() returns, or raises, once the pipeline has ended; #callEndpoint then
\* assembles the Response
Settle(rq, r) ==
    IF rq.pipe.status = "returned"
    THEN Return([rq EXCEPT !.callResult = SimpleResult(rq.pipe.html)],
                SimpleResponse(r, rq.pathname, rq.pipe.html))
    ELSE IF rq.pipe.status = "threw" THEN Throw(rq, HookError)
    ELSE [rq EXCEPT !.pc = "hooks"]

\* the body goes through the render hooks as route type 'endpoint'
EndpointPipelineAsPage(rq, body) ==
    runRenderHookPostProcessHtml(renderHooks, "page", rq.pathname, body, TRUE)
EndpointPipeline(rq, body) ==
    runRenderHookPostProcessHtml(renderHooks, "endpoint", rq.pathname, body, TRUE)

\* `if (response instanceof Response) return { type: 'response', response }`
OnResponseThroughHooks(rq, r, response) ==
    Settle([rq EXCEPT !.authored = response,
                      !.pipe = EndpointPipeline(rq, << >>)], r)
OnResponse(rq, r, response) ==
    Return([rq EXCEPT !.authored = response, !.callResult = ResponseResult(response)],
           PassThrough(r, response))

\* `await renderEndpoint(mod, opts.request, params)` and what follows it
RenderEndpoint(r) ==
    /\ req[r].pc = "handler"
    /\ \E out \in HandlerReturns(r) :
          LET rq == [req[r] EXCEPT !.returned = out]
          IN  req' = [req EXCEPT ![r] =
                  IF out.kind = "response"
                  THEN OnResponse(rq, r, out.response)
                  ELSE Settle([rq EXCEPT !.pipe = EndpointPipeline(rq, out.body)], r)]
    /\ UNCHANGED <<renderHooks, routeCache, pipeVars, devVars, preVars>>

\* the pipeline resumes after an awaited hook
HookResume(r) ==
    /\ req[r].pc = "hooks"
    /\ req' = [req EXCEPT ![r] = Settle([req[r] EXCEPT !.pipe = PipeStep(req[r].pipe)], r)]
    /\ UNCHANGED <<renderHooks, routeCache, pipeVars, devVars, preVars>>

-----------------------------------------------------------------------------
(* The page renderer of the App: #renderPage around the core render *)

\* the specifiers a component may ask the App to resolve ("" : none)
Specifiers == {"", "@astrojs/preact/client.js", "@astrojs/unknown/client.js"}

\* the resolve capability #renderPage passes to the core render
resolve(specifier) ==
    IF specifier \notin DOMAIN EntryModules
    THEN [ok |-> FALSE, val |-> UnableToResolveError(specifier)]
    ELSE LET bundlePath == EntryModules[specifier]
         IN  [ok |-> TRUE,
              val |-> IF Head(bundlePath) = "data:" THEN bundlePath
                      ELSE IF Head(bundlePath) = "/" THEN bundlePath
                      ELSE <<"/">> \o bundlePath]

\* the core render of a page whose component renders `html` and asks for
\* `specifier` to be resolved: the html goes through the render hooks as
\* route type 'page'; [the result, the pipeline's frame]
coreRender(hooks, pathname, html, specifier) ==
    LET p == RunToEnd(runRenderHookPostProcessHtml(hooks, "page", pathname, html, TRUE))
    IN  IF specifier # "" /\ ~resolve(specifier).ok
        THEN [content |-> ThrownContent(resolve(specifier).val), pipe |-> NoPipe]
        ELSE IF p.status = "threw"
        THEN [content |-> ThrownContent(HookError), pipe |-> p]
        ELSE [content |-> HtmlContent(p.html), pipe |-> p]

\* #renderPage after `await render({...})`:
\* `if (result.type === 'response') return result.response;`, else the html
\* is encoded into a new Response
renderPage(rq, r, result) ==
    IF result.type = "throw" THEN Throw(rq, result.error)
    ELSE IF result.type = "response" THEN Return(rq, PassThrough(r, result.response))
    ELSE Return(rq, HtmlResponse(r, result.html))

CoreRender(r) ==
    /\ req[r].pc = "component"
    /\ \/ \E a \in AuthoredResponses(r) :
             req' = [req EXCEPT ![r] =
                        renderPage([req[r] EXCEPT !.authored = a,
                                                  !.content = ResponseContent(a)],
                                   r, ResponseContent(a))]
       \/ \E html \in Htmls, specifier \in Specifiers :
             LET got == coreRender(renderHooks, req[r].pathname, html, specifier)
             IN  req' = [req EXCEPT ![r] =
                            renderPage([req[r] EXCEPT !.pipe = got.pipe,
                                                      !.specifier = specifier,
                                                      !.content = got.content],
                                       r, got.content)]
    /\ UNCHANGED <<renderHooks, routeCache, pipeVars, devVars, preVars>>

-----------------------------------------------------------------------------
(* preload() of core/render/dev: the renderer, render hook and component    *)
(* module loads                                                              *)

\* astroConfig._ctx.renderers and astroConfig._ctx.renderHooks entries
AstroRenderers ==
    {[name |-> "preact", serverEntrypoint |-> "@astrojs/preact/server.js"],
     [name |-> "svelte", serverEntrypoint |-> "@astrojs/svelte/server.js"]}
AstroRenderHooks ==
    {[name |-> "minify", hookEntrypoint |-> "hooks/minify.js", options |-> "x"],
     [name |-> "inline", hookEntrypoint |-> "hooks/inline.js", options |-> "y"]}

\* fileURLToPath(filePath) of the component
FilePath == "/src/pages/index.astro"

\* viteServer.moduleGraph.urlToModuleMap: the urls Vite has a module id for
UrlToModuleMap ==
    [url \in {"@astrojs/preact/server.js", "hooks/minify.js"} |->
        IF url = "hooks/minify.js" THEN "/project/hooks/minify.js"
        ELSE "/node_modules/@astrojs/preact/server.js"]

\* `urlToModuleMap.get(entrypoint)?.id ?? entrypoint`
ModuleIdOf(entrypoint) ==
    IF entrypoint \in DOMAIN UrlToModuleMap THEN UrlToModuleMap[entrypoint] ELSE entrypoint

\* one module load: not started, in flight, loaded or failed
NoLoad == [status |-> "none", id |-> ""]

\* viteServer.ssrLoadModule(id): the load is in flight until it settles
ssrLoadModule(id) == [status |-> "inflight", id |-> id]

\* the default export of a loaded module
DefaultOf(load) == <<"default export of", load.id>>

\* loadRenderer and loadRenderHook up to their await
loadRenderer(renderer) == ssrLoadModule(ModuleIdOf(renderer.serverEntrypoint))
loadRenderHook(renderHook) == ssrLoadModule(ModuleIdOf(renderHook.hookEntrypoint))

\* `return { ...renderer, ssr: mod.default }`
LoadedRenderer(renderer, load) ==
    [name |-> renderer.name, serverEntrypoint |-> renderer.serverEntrypoint,
     ssr |-> DefaultOf(load)]
\* `return { ...renderHook, ssr: mod.default }`
LoadedRenderHook(renderHook, load) ==
    [name |-> renderHook.name, hookEntrypoint |-> renderHook.hookEntrypoint,
     options |-> renderHook.options, ssr |-> DefaultOf(load)]

AllLoaded(loads) == \A i \in 1..Len(loads) : loads[i].status = "loaded"
AnyFailed(loads) == \E i \in 1..Len(loads) : loads[i].status = "failed"

\* what Promise.all resolves to: the values in the order of its input, not in
\* the order `settled` in which the promises were fulfilled
PromiseAllInSettleOrder(values, settled) == [k \in 1..Len(settled) |-> values[settled[k]]]
PromiseAll(values, settled) == values

\* the state of one preload() call, with the order in which the loads settled
NoPre ==
    [ pc |-> "idle", renderers |-> << >>, renderHooks |-> << >>,
      rLoad |-> << >>, hLoad |-> << >>, cLoad |-> NoLoad,
      settled |-> << >>, result |-> << >>, error |-> << >> ]

\* the indices of one list in the order in which their loads settled
SettledOf(p, kind) ==
    LET s == SelectSeq(p.settled, LAMBDA e : e[1] = kind)
    IN  [k \in 1..Len(s) |-> s[k][2]]

\* `Promise.all(astroConfig._ctx.renderers.map((r) => loadRenderer(viteServer, r)))`:
\* map() calls loadRenderer for every entry before anything is awaited
loadRenderersFirstOnly(p) ==
    [p EXCEPT !.pc = "renderers",
              !.rLoad = [i \in 1..Len(p.renderers) |->
                            IF i = 1 THEN loadRenderer(p.renderers[i]) ELSE NoLoad]]
loadRenderers(p) ==
    [p EXCEPT !.pc = "renderers",
              !.rLoad = [i \in 1..Len(p.renderers) |-> loadRenderer(p.renderers[i])]]

\* `Promise.all(astroConfig._ctx.renderHooks.map((rh) => loadRenderHook(viteServer, rh)))`
loadRenderHooks(p) ==
    [p EXCEPT !.pc = "hooks",
              !.hLoad = [i \in 1..Len(p.renderHooks) |-> loadRenderHook(p.renderHooks[i])]]

\* a rejected await: the exception leaves preload()
PreloadThrow(p, kind) ==
    [p EXCEPT !.pc = "failed",
              !.error = LET first == CHOOSE k \in 1..Len(p.settled) :
                                        /\ p.settled[k][1] = kind
                                        /\ p.settled[k][3] = FALSE
                                        /\ \A j \in 1..(k - 1) :
                                              ~(p.settled[j][1] = kind /\ p.settled[j][3] = FALSE)
                        IN  <<"failed to load", kind, p.settled[first][2]>>]

\* `const mod = await viteServer.ssrLoadModule(fileURLToPath(filePath))` and
\* `return [renderers, renderHooks, mod]`
AwaitComponent(p) ==
    IF p.cLoad.status = "failed" THEN PreloadThrow(p, "component")
    ELSE IF p.cLoad.status = "loaded"
    THEN [p EXCEPT !.pc = "done", !.result[3] = DefaultOf(p.cLoad)]
    ELSE p

\* `const renderHooks = await loadRenderHooks(viteServer, astroConfig)`, then
\* the component load is started
AwaitRenderHooks(p) ==
    IF AnyFailed(p.hLoad) THEN PreloadThrow(p, "hook")
    ELSE IF AllLoaded(p.hLoad)
    THEN AwaitComponent(
            [p EXCEPT !.pc = "component",
                      !.result[2] = PromiseAll(
                          [i \in 1..Len(p.renderHooks) |->
                              LoadedRenderHook(p.renderHooks[i], p.hLoad[i])],
                          SettledOf(p, "hook")),
                      !.cLoad = ssrLoadModule(FilePath)])
    ELSE p

\* `const renderers = await loadRenderers(viteServer, astroConfig)`, then the
\* render hook loads are started
AwaitRenderers(p) ==
    IF AnyFailed(p.rLoad) THEN PreloadThrow(p, "renderer")
    ELSE IF AllLoaded(p.rLoad)
    THEN AwaitRenderHooks(loadRenderHooks(
            [p EXCEPT !.result[1] = PromiseAll(
                          [i \in 1..Len(p.renderers) |->
                              LoadedRenderer(p.renderers[i], p.rLoad[i])],
                          SettledOf(p, "renderer"))]))
    ELSE p

\* preload() up to its first pending await
preload(renderers, hooks) ==
    AwaitRenderers(loadRenderers(
        [NoPre EXCEPT !.renderers = renderers, !.renderHooks = hooks,
                      !.result = << << >>, << >>, << >> >>]))

\* preload() resumes where it is waiting
ResumePreload(p) ==
    CASE p.pc = "renderers" -> AwaitRenderers(p)
      [] p.pc = "hooks"     -> AwaitRenderHooks(p)
      [] p.pc = "component" -> AwaitComponent(p)
      [] OTHER              -> p

\* the load settles: the module is loaded, or loading it raised
SettleLoad(load, ok) == [load EXCEPT !.status = IF ok THEN "loaded" ELSE "failed"]

Preload ==
    /\ pre.pc = "idle"
    /\ \E renderers \in SeqsUpTo(AstroRenderers, MaxRenderers),
          hooks \in SeqsUpTo(AstroRenderHooks, MaxRenderHooks) :
          pre' = preload(renderers, hooks)
    /\ UNCHANGED <<appVars, pipeVars, devVars>>

RendererLoadSettles ==
    /\ \E i \in 1..Len(pre.rLoad), ok \in BOOLEAN :
          /\ pre.rLoad[i].status = "inflight"
          /\ pre' = ResumePreload(
                 [pre EXCEPT !.rLoad[i] = SettleLoad(pre.rLoad[i], ok),
                             !.settled = Append(pre.settled, <<"renderer", i, ok>>)])
    /\ UNCHANGED <<appVars, pipeVars, devVars>>

RenderHookLoadSettles ==
    /\ \E i \in 1..Len(pre.hLoad), ok \in BOOLEAN :
          /\ pre.hLoad[i].status = "inflight"
          /\ pre' = ResumePreload(
                 [pre EXCEPT !.hLoad[i] = SettleLoad(pre.hLoad[i], ok),
                             !.settled = Append(pre.settled, <<"hook", i, ok>>)])
    /\ UNCHANGED <<appVars, pipeVars, devVars>>

ComponentLoadSettles ==
    /\ pre.cLoad.status = "inflight"
    /\ \E ok \in BOOLEAN :
          pre' = ResumePreload(
                 [pre EXCEPT !.cLoad = SettleLoad(pre.cLoad, ok),
                             !.settled = Append(pre.settled, <<"component", 0, ok>>)])
    /\ UNCHANGED <<appVars, pipeVars, devVars>>

-----------------------------------------------------------------------------
(* The dev page renderer: render() of core/render/dev *)

\* `const isLegacyBuild = false;`
IsLegacyBuild == FALSE

\* html in the dev renderer is a sequence of markup tokens
DocType == <<"<!DOCTYPE html>", "\n">>

DevHtmls ==
    { << >>,
      <<"<html>", "<head>", "</head>", "<body>", "</body>", "</html>">>,
      <<"<!DOCTYPE html>", "<html>", "</html>">>,
      <<"<!doctype html>", "<html>", "</html>">>,
      <<"<html>", "<!DocType HTML>", "</html>">> }

\* the test without the `i` flag
TestDoctypeCaseSensitive(html) ==
    \E k \in 1..Len(html) : html[k] = "<!doctype html>"

\* /<!doctype html/i.test(html)
TestDoctype(html) ==
    \E k \in 1..Len(html) : html[k] \in {"<!DOCTYPE html>", "<!doctype html>", "<!DocType HTML>"}

CoreContents ==
    {HtmlContent(h) : h \in DevHtmls} \cup {ResponseContent(a) : a \in AuthoredResponses(0)}

\* string concatenation converts an operand that is not a string: an object
\* becomes "[object Object]"
ToStr(v) == <<"[object Object]">>

\* injectTags(html, tags) of ./html.js; without tags the html is unchanged
injectTags(html, tags) == IF tags = << >> THEN html ELSE tags \o html

\* astroConfig: site and base ("" : not configured), whether the build
\* targets SSR, and the contents of the 'head-inline' scripts of _ctx.scripts
AstroConfigs ==
    {[site |-> st, base |-> b, buildingToSSR |-> ssr, headInline |-> hi] :
        st \in {"", "https://example.com"}, b \in {"", "/docs/"}, ssr \in BOOLEAN,
        hi \in {{}, {"inline script"}}}

\* new URL(base, site).toString(); an undefined base is converted to the
\* string "undefined" and resolved against the site
URLString(base, site) ==
    IF base = "" THEN <<site, "/", "undefined">> ELSE <<site, base>>

\* `site: astroConfig.site ? new URL(astroConfig.base, astroConfig.site).toString() : undefined`
SiteOf(astroConfig) ==
    IF astroConfig.site # "" THEN URLString(astroConfig.base, astroConfig.site) ELSE << >>

\* getStylesForURL(filePath, viteServer)
StyleSets == {{}, {"/src/a.css", "/src/B.svelte?svelte&type=style&lang.css"}}

\* svelteStylesRE = /svelte\?svelte&type=style/
TestSvelteStyle(href) == href = "/src/B.svelte?svelte&type=style&lang.css"

\* the hoisted and HMR module scripts, the head-inline scripts, and the
\* svelte styles served as modules
ScriptsOf(hasMetadata, mode, styles, headInline) ==
    (IF ~IsLegacyBuild /\ hasMetadata THEN {"/src/hoisted.js"} ELSE {})
      \cup (IF hasMetadata /\ mode = "development" /\ ~IsLegacyBuild
            THEN {"/@vite/client", "/runtime/client/hmr.js"} ELSE {})
      \cup headInline
      \cup (IF ~IsLegacyBuild
            THEN {h \in styles : mode = "development" /\ TestSvelteStyle(h)} ELSE {})

\* the stylesheet links
LinksOf(mode, styles) ==
    IF ~IsLegacyBuild
    THEN {h \in styles : ~(mode = "development" /\ TestSvelteStyle(h))}
    ELSE {}

\* the tags to inject: only a legacy build has any
TagsOf(mode, styles) ==
    IF IsLegacyBuild
    THEN (IF mode = "development" THEN <<"<script hmr>">> ELSE << >>) \o <<"<link styles>">>
    ELSE << >>

NoDev ==
    [ pc |-> "idle", routeType |-> "", mode |-> "", styles |-> {},
      astroConfig |-> [site |-> "", base |-> "", buildingToSSR |-> FALSE,
                       headInline |-> {}],
      scripts |-> {}, links |-> {}, site |-> << >>, ssr |-> FALSE,
      content |-> NoContent, result |-> NoContent ]

\* render() up to `await coreRender({...})`; routeType "" is an absent route
DevRender ==
    /\ dev.pc = "idle"
    /\ \E routeType \in {"", "page", "endpoint"}, mode \in {"development", "production"},
          hasMetadata \in BOOLEAN, styles \in StyleSets, astroConfig \in AstroConfigs :
          dev' = [dev EXCEPT !.pc = "core", !.routeType = routeType, !.mode = mode,
                             !.styles = styles, !.astroConfig = astroConfig,
                             !.scripts = ScriptsOf(hasMetadata, mode, styles,
                                                  astroConfig.headInline),
                             !.links = LinksOf(mode, styles),
                             !.site = SiteOf(astroConfig),
                             !.ssr = astroConfig.buildingToSSR]
    /\ UNCHANGED <<appVars, pipeVars, preVars>>

\* `html = '<!DOCTYPE html>\n' + content;`
PrependDoctype(content, html) == DocType \o ToStr(content)

\* lines 262-273: inject the tags, then the doctype if it is missing
Finalize(content, tags) ==
    LET html == injectTags(content.html, tags)
    IN  HtmlContent(IF ~TestDoctype(html) THEN PrependDoctype(content, html) ELSE html)

\* `if (route?.type === 'endpoint' || content.type === 'response') return content;`
ReturnsContentOnResponseOnly(routeType, content) == content.type = "response"
ReturnsContent(routeType, content) ==
    routeType = "endpoint" \/ content.type = "response"

\* the core render resolves, and render() runs to its return
DevCoreRendered ==
    /\ dev.pc = "core"
    /\ \E content \in CoreContents :
          dev' = [dev EXCEPT !.pc = "done", !.content = content,
                     !.result =
                        IF ReturnsContent(dev.routeType, content)
                        THEN content
                        ELSE Finalize(content, TagsOf(dev.mode, dev.styles))]
    /\ UNCHANGED <<appVars, pipeVars, preVars>>

DevInit ==
    /\ dev = NoDev
    /\ pre = NoPre
    /\ pipe = NoPipe
    /\ renderHooks = << >>
    /\ routeCache = {}
    /\ req = << >>

DevNext == DevRender \/ DevCoreRendered

DevSpec == DevInit /\ [][DevNext]_vars

-----------------------------------------------------------------------------
(* The App *)

\* one step of the App.render call r
Serve(r) ==
    \/ Render(r)
    \/ GetParamsAndProps(r)
    \/ RenderEndpoint(r)
    \/ HookResume(r)
    \/ CoreRender(r)

\* the App constructor: a fresh route cache, the manifest's render hooks;
\* MaxRequests calls of App.render interleave at their awaits
Init ==
    /\ pipe = NoPipe
    /\ dev = NoDev
    /\ pre = NoPre
    /\ renderHooks \in SeqsUpTo(LoadedHooks, MaxAppHooks)
    /\ routeCache = {}
    /\ req = [r \in Requests |-> IdleRequest]

Next == \E r \in Requests : Serve(r)

Spec == Init /\ [][Next]_vars

\* an App that serves one request, for every manifest hook list up to MaxHooks
SingleInit ==
    /\ pipe = NoPipe
    /\ dev = NoDev
    /\ pre = NoPre
    /\ renderHooks \in SeqsUpTo(LoadedHooks, MaxHooks)
    /\ routeCache = {}
    /\ req = [r \in {1} |-> IdleRequest]

SingleNext == Serve(1)

SingleSpec == SingleInit /\ [][SingleNext]_vars

-----------------------------------------------------------------------------
(* A stand-alone call of runRenderHookPostProcessHtml *)

PipeCall ==
    /\ pipe.status = "idle"
    /\ \E hooks \in SeqsUpTo(LoadedHooks, MaxHooks), routeType \in RouteTypes,
          pathname \in {"/", "/api/data.json"}, html \in Htmls, ssr \in BOOLEAN :
          pipe' = runRenderHookPostProcessHtml(hooks, routeType, pathname, html, ssr)
    /\ UNCHANGED <<appVars, devVars, preVars>>

PipeResume ==
    /\ pipe.status = "running"
    /\ pipe' = PipeStep(pipe)
    /\ UNCHANGED <<appVars, devVars, preVars>>

PipeInit ==
    /\ pipe = NoPipe
    /\ dev = NoDev
    /\ pre = NoPre
    /\ renderHooks = << >>
    /\ routeCache = {}
    /\ req = << >>

PipeNext == PipeCall \/ PipeResume

PipeSpec == PipeInit /\ [][PipeNext]_vars

-----------------------------------------------------------------------------
(* A stand-alone call of preload() *)

PreloadInit ==
    /\ pre = NoPre
    /\ pipe = NoPipe
    /\ dev = NoDev
    /\ renderHooks = << >>
    /\ routeCache = {}
    /\ req = << >>

PreloadNext ==
    \/ Preload
    \/ RendererLoadSettles
    \/ RenderHookLoadSettles
    \/ ComponentLoadSettles

PreloadSpec == PreloadInit /\ [][PreloadNext]_vars


-----------------------------------------------------------------------------
(* Properties of the stand-alone pipeline *)

\* the html in force before the k-th invocation: the latest replacement made
\* by an earlier invocation, or the input when none replaced it
RECURSIVE LatestHtml(_, _)
LatestHtml(p, k) ==
    IF k = 1 THEN p.input
    ELSE IF Truthy(p.calls[k - 1].ret) THEN p.calls[k - 1].ret.val
    ELSE LatestHtml(p, k - 1)

\* the positions the loop has dealt with
Visited(p) ==
    {j \in 1..Len(p.renderHooks) : j < p.i \/ (p.status = "threw" /\ j = p.i)}

InvokedIdx(p) == {p.calls[k].idx : k \in 1..Len(p.calls)}

\* the invocations so far are of the capable hooks visited, in list order,
\* each given the html in force when it was invoked
SequentialPipeline(p) ==
    /\ \A k \in 1..Len(p.calls) :
          /\ HasPostProcessHtml(p.renderHooks[p.calls[k].idx])
          /\ k > 1 => p.calls[k - 1].idx < p.calls[k].idx
          /\ p.calls[k].ctx.html = LatestHtml(p, k)
    /\ InvokedIdx(p) = {j \in Visited(p) : HasPostProcessHtml(p.renderHooks[j])}
    /\ p.status = "returned" => p.html = LatestHtml(p, Len(p.calls) + 1)

\* C1: the hooks that have postProcessHtml are invoked one at a time in list
\* order, each exactly once; the hook at position i receives the html left by
\* the hooks before it (the latest replacement, not the original input), and
\* the value returned is the html after the last hook.
C1_Sequential == SequentialPipeline(pipe)

\* a later hook received an earlier hook's output, which differs from the input
C1_Witness ==
    /\ pipe.status = "returned"
    /\ Len(pipe.calls) >= 2
    /\ pipe.calls[2].ctx.html # pipe.input
    /\ pipe.html # pipe.calls[2].ctx.html

\* the hooks that have the capability, in their order
Effective(hooks) == SelectSeq(hooks, HasPostProcessHtml)

\* C10: a finished call on H ends as the call on H without the hooks that lack
\* postProcessHtml ends (same html, or both raise); on the empty list the
\* result is the input.
C10_EffectiveSubset ==
    pipe.status \in {"returned", "threw"} =>
        /\ Outcome(pipe) =
              Outcome(RunToEnd(runRenderHookPostProcessHtml(
                  Effective(pipe.renderHooks), pipe.routeType, pipe.pathname,
                  pipe.input, pipe.ssr)))
        /\ pipe.renderHooks = << >> => Outcome(pipe) = Str(pipe.input)

\* a hook without the capability stands before one that changed the html
C10_Witness ==
    /\ pipe.status = "returned"
    /\ \E j \in 1..Len(pipe.renderHooks) :
          /\ ~HasPostProcessHtml(pipe.renderHooks[j])
          /\ \E k \in 1..Len(pipe.calls) : pipe.calls[k].idx > j
    /\ pipe.html # pipe.input

-----------------------------------------------------------------------------
(* Properties of the App *)

EndpointRequest(rq) == rq.routeData.type = "endpoint"

CapableHooks == {j \in 1..Len(renderHooks) : HasPostProcessHtml(renderHooks[j])}

\* C2: when the endpoint handler returns a Response object, call() returns
\* { type: 'response' } carrying that same object, no hook's postProcessHtml
\* is invoked for the request, and App.render returns that same object.
C2_ResponsePassthrough ==
    \A r \in DOMAIN req :
        (EndpointRequest(req[r]) /\ req[r].returned.kind = "response") =>
            /\ req[r].callResult = ResponseResult(req[r].returned.response)
            /\ req[r].pipe = NoPipe
            /\ req[r].pc = "done"
            /\ req[r].result = req[r].returned.response

\* a handler returned a Response while the manifest has hooks that could run
C2_Witness ==
    \E r \in DOMAIN req :
        /\ EndpointRequest(req[r])
        /\ req[r].returned.kind = "response"
        /\ req[r].pc = "done"
        /\ Cardinality(CapableHooks) >= 2

\* C4: the route cache is request-scoped: a request reads no cache entry
\* that another request wrote, and the params it resolves are those of its
\* own concrete path.
C4_RequestScopedCache ==
    \A r \in DOMAIN req :
        /\ req[r].cacheFrom \in {0, r}
        /\ req[r].paramsResp # << >> =>
              req[r].paramsResp = ComputeParams(req[r].routeData, req[r].pathname)

\* C5: when a hook raises in an endpoint request, the error leaves the
\* pipeline and call(): the request fails with the hook's error, no later
\* hook is invoked, no 'simple' result and no response is produced; the hooks
\* before it were each applied once and their html is kept.
C5_HookFailure ==
    \A r \in DOMAIN req :
        LET p == req[r].pipe
        IN  \A k \in 1..Len(p.calls) :
                (EndpointRequest(req[r]) /\ p.calls[k].ret = Thrown) =>
                    /\ k = Len(p.calls)
                    /\ p.status = "threw"
                    /\ req[r].pc = "failed"
                    /\ req[r].error = HookError
                    /\ req[r].callResult = NoCallResult
                    /\ req[r].result = NoResponse
                    /\ \A j \in InvokedIdx(p) : j <= p.calls[k].idx
                    /\ \A j \in 1..(p.calls[k].idx - 1) :
                          HasPostProcessHtml(p.renderHooks[j]) =>
                              Cardinality({m \in 1..Len(p.calls) : p.calls[m].idx = j}) = 1
                    /\ p.html = LatestHtml(p, k)

\* a hook raised after an earlier hook had replaced the html, with a capable
\* hook still behind it
C5_Witness ==
    \E r \in DOMAIN req :
        LET p == req[r].pipe
        IN  /\ EndpointRequest(req[r])
            /\ req[r].pc = "failed"
            /\ Len(p.calls) = 2
            /\ p.calls[2].ret = Thrown
            /\ p.html # p.input
            /\ p.calls[2].idx < Len(p.renderHooks)
            /\ HasPostProcessHtml(p.renderHooks[Len(p.renderHooks)])

\* C6: the selected route's kind selects exactly one path, the page renderer
\* for 'page' and the endpoint invoker for 'endpoint', never both; any other
\* kind raises 'Unsupported route type' and produces no response.
C6_OnePath ==
    \A r \in DOMAIN req :
        LET rq == req[r]
        IN  (rq.pc # "idle" /\ rq.routeData # NoRoute) =>
                /\ rq.routeData.type = "page" => rq.invoked = {"page"}
                /\ rq.routeData.type = "endpoint" => rq.invoked = {"endpoint"}
                /\ rq.pc \in {"handler", "hooks"} => rq.routeData.type = "endpoint"
                /\ rq.returned # NoReturn => rq.routeData.type = "endpoint"
                /\ rq.pc = "component" => rq.routeData.type = "page"
                /\ rq.routeData.type \notin {"page", "endpoint"} =>
                      /\ rq.invoked = {}
                      /\ rq.pc = "failed"
                      /\ rq.error = <<"Unsupported route type [", rq.routeData.type, "].">>
                      /\ rq.result = NoResponse

\* a route of another kind was selected
C6_Witness ==
    \E r \in DOMAIN req :
        /\ req[r].pc = "failed"
        /\ req[r].routeData.type = "redirect"

\* C7: without routeData and with no route matching the path, the result is
\* a 404 response with no body; no renderer, endpoint, hook or cache is used.
C7_NotFound ==
    \A r \in DOMAIN req :
        LET rq == req[r]
        IN  (rq.pc # "idle" /\ rq.given = NoRoute
                /\ \A k \in 1..Len(ManifestRoutes) : rq.pathname \notin ManifestRoutes[k].accepts) =>
                /\ rq.pc = "done"
                /\ rq.result.status = 404
                /\ rq.result.body = NullBody
                /\ rq.error = NoError
                /\ rq.invoked = {}
                /\ rq.pipe = NoPipe
                /\ rq.returned = NoReturn
                /\ rq.authored = NoResponse
                /\ rq.paramsResp = << >>
                /\ \A e \in routeCache : e.writer # r

C7_Witness ==
    \E r \in DOMAIN req :
        /\ req[r].pc = "done"
        /\ req[r].pathname = "/does-not-exist"
        /\ req[r].given = NoRoute
        /\ Cardinality(CapableHooks) >= 1

\* C8: when getParamsAndProps yields NoMatchingStaticPath in an endpoint
\* request, call() raises an error whose message contains the request's
\* pathname; the handler is not invoked, no hook runs, and no response is
\* produced.
C8_NoMatchingStaticPath ==
    \A r \in DOMAIN req :
        LET rq == req[r]
        IN  (EndpointRequest(rq) /\ rq.paramsResp = NoMatchingStaticPath) =>
                /\ rq.pc = "failed"
                /\ Len(rq.error) > 0
                /\ Head(rq.error) =
                      "[getStaticPath] route pattern matched, but no matching static path found. ("
                /\ \E k \in 1..Len(rq.error) : rq.error[k] = rq.pathname
                /\ rq.returned = NoReturn
                /\ rq.pipe = NoPipe
                /\ rq.callResult = NoCallResult
                /\ rq.result = NoResponse

C8_Witness ==
    \E r \in DOMAIN req :
        /\ req[r].pc = "failed"
        /\ req[r].pathname = "/p/3"
        /\ req[r].paramsResp = NoMatchingStaticPath
        /\ Cardinality(CapableHooks) >= 1

\* C9: when the endpoint handler returns a body, call() passes it through the
\* render hooks once, every hook is given routeType 'endpoint' and the
\* request's pathname, and call() returns { type: 'simple' } with the
\* pipeline's output as body.
C9_BodyThroughHooks ==
    \A r \in DOMAIN req :
        LET rq == req[r]
            p  == rq.pipe
        IN  (EndpointRequest(rq) /\ rq.returned.kind = "body") =>
                /\ p.input = rq.returned.body
                /\ p.renderHooks = renderHooks
                /\ \A k \in 1..Len(p.calls) :
                      /\ p.calls[k].ctx.routeType = "endpoint"
                      /\ p.calls[k].ctx.pathname = rq.pathname
                /\ Cardinality(InvokedIdx(p)) = Len(p.calls)
                /\ SequentialPipeline(p)
                /\ rq.pc = "done" =>
                      /\ InvokedIdx(p) = CapableHooks
                      /\ rq.callResult = SimpleResult(LatestHtml(p, Len(p.calls) + 1))

\* a body went through two hooks, one of which looks at the route type
C9_Witness ==
    \E r \in DOMAIN req :
        LET rq == req[r]
        IN  /\ EndpointRequest(rq)
            /\ rq.returned.kind = "body"
            /\ rq.pc = "done"
            /\ rq.callResult.body # rq.returned.body
            /\ \E j \in CapableHooks : renderHooks[j].ssr = "epaware"
            /\ Cardinality(CapableHooks) >= 2

-----------------------------------------------------------------------------
(* Properties of the dev page renderer *)

\* C3: for a page route whose rendered html has no doctype, render() returns
\* { type: 'html' } whose html is the doctype '<!DOCTYPE html>' followed by
\* the rendered html with the head tags injected.
C3_DoctypeThenMarkup ==
    (dev.pc = "done" /\ dev.routeType = "page" /\ dev.content.type = "html"
        /\ ~TestDoctype(dev.content.html)) =>
        \E sep \in {<< >>, <<"\n">>} :
            dev.result =
                HtmlContent(<<"<!DOCTYPE html>">> \o sep
                    \o injectTags(dev.content.html, TagsOf(dev.mode, dev.styles)))

\* the number of doctype declarations, in any letter case, of an html
DoctypeCount(html) ==
    Cardinality({k \in 1..Len(html) :
        html[k] \in {"<!DOCTYPE html>", "<!doctype html>", "<!DocType HTML>"}})

\* C11: the doctype injection of the dev page render() is idempotent: an html
\* that, after tag injection, already holds a doctype in any letter case is
\* returned as it is, an html without one comes back with exactly one, and the
\* injection step applied to its own output changes nothing, so no result
\* gains a second doctype.
C11_DoctypeIdempotent ==
    (dev.pc = "done" /\ dev.routeType # "endpoint" /\ dev.content.type = "html") =>
        LET tags == TagsOf(dev.mode, dev.styles)
            html == injectTags(dev.content.html, tags)
        IN  /\ DoctypeCount(html) >= 1 => dev.result = HtmlContent(html)
            /\ DoctypeCount(html) = 0 => DoctypeCount(dev.result.html) = 1
            /\ Finalize(dev.result, tags) = dev.result
            /\ DoctypeCount(Finalize(dev.result, tags).html) = DoctypeCount(dev.result.html)

C11_Witness ==
    /\ dev.pc = "done"
    /\ dev.routeType = "page"
    /\ dev.content = HtmlContent(<<"<html>", "<!DocType HTML>", "</html>">>)
    /\ dev.result = dev.content

-----------------------------------------------------------------------------
(* Properties of App.render: failures and the responses the App builds *)

\* the fatal conditions a request has met
FatalConditions(rq) ==
    (IF rq.specifier # "" /\ rq.specifier \notin DOMAIN EntryModules
     THEN {"unresolvable specifier"} ELSE {})
    \cup (IF rq.paramsResp = NoMatchingStaticPath THEN {"no matching static path"} ELSE {})
    \cup (IF rq.pipe.status = "threw" THEN {"hook failure"} ELSE {})
    \cup (IF rq.pc # "idle" /\ rq.routeData # NoRoute
             /\ rq.routeData.type \notin {"page", "endpoint"}
          THEN {"unsupported route kind"} ELSE {})

\* C12: an unresolvable specifier, a missing static path, a hook failure and an
\* unsupported route kind each make App.render fail with an error that reaches
\* its caller and with no response; a call that fails met one of them; every
\* response the App itself constructs has status 200 or 404, and 404 only when
\* the matcher was consulted and found no route.
C12_FatalPropagates ==
    \A r \in DOMAIN req :
        LET rq == req[r]
        IN  /\ FatalConditions(rq) # {} =>
                   rq.pc = "failed" /\ rq.error # NoError /\ rq.result = NoResponse
            /\ rq.pc = "failed" =>
                   FatalConditions(rq) # {} /\ rq.error # NoError /\ rq.result = NoResponse
            /\ rq.pc = "done" => rq.error = NoError /\ rq.result # NoResponse
            /\ rq.result.id[1] = "app" =>
                   /\ rq.result.status \in {200, 404}
                   /\ rq.result.status = 404 =>
                          rq.matched /\ rq.routeData = NoRoute /\ rq.invoked = {}

C12_Witness ==
    \E r \in DOMAIN req :
        /\ req[r].pc = "failed"
        /\ req[r].routeData.type = "page"
        /\ FatalConditions(req[r]) = {"unresolvable specifier"}
        /\ req[r].error = UnableToResolveError("@astrojs/unknown/client.js")
        /\ req[r].result = NoResponse

\* C13: a page whose core render resolves to html is answered with a Response
\* the App builds: status 200, Content-Type 'text/html', the UTF-8 bytes of
\* the html as body, and Content-Length the decimal count of those bytes (not
\* of the characters), and no other header; a core render that resolves to a
\* Response is answered with that same object, status and headers untouched.
C13_PageResponse ==
    \A r \in DOMAIN req :
        LET rq == req[r]
        IN  (rq.pc = "done" /\ rq.invoked = {"page"}) =>
                /\ rq.content.type \in {"html", "response"}
                /\ rq.content.type = "html" =>
                      /\ rq.result.id = <<"app", r>>
                      /\ rq.result.status = 200
                      /\ rq.result.body = BytesBody(encode(rq.content.html))
                      /\ rq.result.headers =
                            {<<"Content-Type", <<"text/html">> >>,
                             <<"Content-Length", toString(Len(encode(rq.content.html)))>>}
                      /\ rq.content.html = <<"eacute", "b">> =>
                            <<"Content-Length", <<"3">> >> \in rq.result.headers
                /\ rq.content.type = "response" =>
                      /\ rq.result = rq.content.response
                      /\ rq.result = rq.authored
                      /\ rq.result.id = <<"authored", r>>

C13_Witness ==
    \E r \in DOMAIN req :
        /\ req[r].pc = "done"
        /\ req[r].invoked = {"page"}
        /\ req[r].content = HtmlContent(<<"eacute", "b">>)
        /\ req[r].result.status = 200
        /\ <<"Content-Length", <<"3">> >> \in req[r].result.headers
        /\ Len(req[r].result.body.bytes) = 3

\* C14: an endpoint call that resolves to a simple result is answered with a
\* Response the App builds: status 200, the UTF-8 bytes of the body, and
\* Content-Length the decimal count of those bytes; Content-Type is the MIME
\* type of the pathname's extension when it is known and the header is absent
\* when it is not.
C14_SimpleResponse ==
    \A r \in DOMAIN req :
        LET rq == req[r]
            contentTypes == {h[2] : h \in {g \in rq.result.headers : g[1] = "Content-Type"}}
        IN  (rq.pc = "done" /\ rq.callResult.type = "simple") =>
                /\ rq.invoked = {"endpoint"}
                /\ rq.result.id = <<"app", r>>
                /\ rq.result.status = 200
                /\ rq.result.body = BytesBody(encode(rq.callResult.body))
                /\ <<"Content-Length", toString(Len(encode(rq.callResult.body)))>>
                      \in rq.result.headers
                /\ {h[1] : h \in rq.result.headers} \subseteq {"Content-Type", "Content-Length"}
                /\ contentTypes = IF getType(rq.pathname) # << >>
                                  THEN {getType(rq.pathname)} ELSE {}
                /\ rq.pathname = "/api/data.json" => contentTypes = {<<"application/json">>}
                /\ rq.pathname = "/p/1" => contentTypes = {}

C14_Witness ==
    \E r \in DOMAIN req :
        /\ req[r].pc = "done"
        /\ req[r].callResult = SimpleResult(<<"eacute", "b">>)
        /\ req[r].pathname = "/p/1"
        /\ req[r].result.headers = {<<"Content-Length", <<"3">> >>}

-----------------------------------------------------------------------------
(* The return value of a hook *)

\* the html in force after the k-th invocation of the call p
HtmlAfter(p, k) == IF k < Len(p.calls) THEN p.calls[k + 1].ctx.html ELSE p.html

\* C15: whenever a hook's postProcessHtml returns a string, the string becomes
\* the current html, the empty string included; the html is left unchanged
\* only when the hook returns undefined.
C15_StringReplaces ==
    \A k \in 1..Len(pipe.calls) :
        LET call == pipe.calls[k]
        IN  /\ call.ret.tag = "string" => HtmlAfter(pipe, k) = call.ret.val
            /\ call.ret.tag = "undefined" => HtmlAfter(pipe, k) = call.ctx.html

-----------------------------------------------------------------------------
(* Further properties of the dev page renderer *)

\* C16: when the route is endpoint-typed, or the core render resolved to a
\* passthrough response, the dev render() returns exactly what the core render
\* resolved to: no tag and no doctype is injected and the value is not
\* wrapped again.
C16_EarlyReturn ==
    (dev.pc = "done" /\ (dev.routeType = "endpoint" \/ dev.content.type = "response")) =>
        /\ dev.result = dev.content
        /\ DoctypeCount(dev.result.html) = DoctypeCount(dev.content.html)

C16_Witness ==
    /\ dev.pc = "done"
    /\ dev.routeType = "endpoint"
    /\ dev.content = HtmlContent(<<"<html>", "<head>", "</head>", "<body>", "</body>", "</html>">>)
    /\ dev.result = dev.content

\* C17: the site URL handed to the core render is the combination of base and
\* site only when both astroConfig.site and astroConfig.base are configured;
\* when either of them is absent the site handed over is undefined.
C17_SiteOnlyWhenBoth ==
    dev.pc # "idle" =>
        dev.site = IF dev.astroConfig.site # "" /\ dev.astroConfig.base # ""
                   THEN <<dev.astroConfig.site, dev.astroConfig.base>>
                   ELSE << >>

-----------------------------------------------------------------------------
(* Properties of preload() *)

\* the loads of a list that are in flight
InFlight(loads) == {i \in 1..Len(loads) : loads[i].status = "inflight"}
Started(loads) == {i \in 1..Len(loads) : loads[i].status # "none"}

\* C18: the renderer and render hook module loads are sequential: at no point
\* of preload() are two of them in flight at the same time.
C18_SequentialLoads ==
    Cardinality(InFlight(pre.rLoad)) + Cardinality(InFlight(pre.hLoad)) <= 1

\* C18, amended: the loads are sequential by list, not one by one: the call
\* starts the loads of all configured renderers together, the loads of all
\* configured render hooks are started together once every renderer load has
\* completed, and a renderer load is never in flight along with a render hook
\* load.
C18_PhasedLoads ==
    /\ pre.pc # "idle" => Started(pre.rLoad) = 1..Len(pre.renderers)
    /\ Started(pre.hLoad) # {} =>
          /\ AllLoaded(pre.rLoad)
          /\ Started(pre.hLoad) = 1..Len(pre.renderHooks)
    /\ (pre.pc \in {"hooks", "component", "done"} /\ pre.renderHooks # << >>) =>
          Started(pre.hLoad) # {}
    /\ InFlight(pre.rLoad) = {} \/ InFlight(pre.hLoad) = {}

C18_Witness ==
    /\ pre.pc = "renderers"
    /\ Len(pre.renderers) = 2
    /\ InFlight(pre.rLoad) = {1, 2}
    /\ pre.settled = << >>

\* the names of a list of renderers or render hooks, in order
NamesOf(list) == [i \in 1..Len(list) |-> list[i].name]

\* C19: in preload() the component module load starts only after every
\* renderer load and every render hook load has completed, whatever the order
\* in which they complete; the lists returned are in configuration order, each
\* entry with the default export of its own module; when a renderer or render
\* hook load fails, preload() fails and the component module is never loaded.
C19_ComponentLast ==
    /\ pre.cLoad.status # "none" => AllLoaded(pre.rLoad) /\ AllLoaded(pre.hLoad)
    /\ (AnyFailed(pre.rLoad) \/ AnyFailed(pre.hLoad)) =>
          pre.cLoad.status = "none" /\ pre.pc = "failed"
    /\ AnyFailed(pre.rLoad) => Started(pre.hLoad) = {}
    /\ pre.pc = "done" =>
          /\ pre.cLoad.status = "loaded"
          /\ NamesOf(pre.result[1]) = NamesOf(pre.renderers)
          /\ NamesOf(pre.result[2]) = NamesOf(pre.renderHooks)
          /\ \A i \in 1..Len(pre.renderers) :
                pre.result[1][i].ssr =
                    <<"default export of", ModuleIdOf(pre.renderers[i].serverEntrypoint)>>
          /\ \A i \in 1..Len(pre.renderHooks) :
                /\ pre.result[2][i].ssr =
                      <<"default export of", ModuleIdOf(pre.renderHooks[i].hookEntrypoint)>>
                /\ pre.result[2][i].options = pre.renderHooks[i].options
          /\ pre.result[3] = <<"default export of", FilePath>>

C19_Witness ==
    /\ pre.pc = "done"
    /\ NamesOf(pre.renderers) = <<"preact", "svelte">>
    /\ NamesOf(pre.renderHooks) = <<"minify", "inline">>
    /\ pre.settled = << <<"renderer", 2, TRUE>>, <<"renderer", 1, TRUE>>,
                        <<"hook", 2, TRUE>>, <<"hook", 1, TRUE>>,
                        <<"component", 0, TRUE>> >>
    /\ NamesOf(pre.result[1]) = <<"preact", "svelte">>
    /\ NamesOf(pre.result[2]) = <<"minify", "inline">>

-----------------------------------------------------------------------------
(* App.render with a route given by the caller *)

\* C20: when App.render is given routeData, the matcher is not consulted and
\* the given route is the one dispatched, whatever route, if any, the request
\* path matches: the call is never answered with the App's 404.
C20_GivenRoute ==
    \A r \in DOMAIN req :
        LET rq == req[r]
        IN  (rq.pc # "idle" /\ rq.given # NoRoute) =>
                /\ ~rq.matched
                /\ rq.routeData = rq.given
                /\ rq.invoked = {rq.given.type}
                /\ rq.result # NotFound(r)
                /\ rq.result.status # 404

C20_Witness ==
    \E r \in DOMAIN req :
        /\ req[r].pc = "done"
        /\ req[r].given = DataRoute
        /\ req[r].pathname \in Paths
        /\ match(req[r].pathname) = NoRoute
        /\ req[r].invoked = {"endpoint"}
        /\ req[r].result.status = 200

====
